---- MODULE Spec2Model ----
(***************************************************************************)
(* State-machine model of UserDataProfileService                           *)
(* (src/vs/workbench/services/userDataProfile/common/                      *)
(* userDataProfileService.ts): the holder of the current profile, its      *)
(* switch operation with the join barrier, and the reconciliation with     *)
(* the profile catalog's change events.                                    *)
(***************************************************************************)
EXTENDS Integers, Sequences, FiniteSets, TLC

(***************************************************************************)
(* Bounds of the model.                                                    *)
(***************************************************************************)
\* change listeners / update listeners that may be registered
MaxListeners == 2
\* promises joined during one switch (over all listeners of the dispatch)
MaxJoiners == 2
\* entries in the "updated" list of one catalog change event
MaxUpdated == 2

(***************************************************************************)
(* Profiles.  A profile value is an id plus a revision of its other        *)
(* attributes: two profiles with the same id and different revisions are   *)
(* different objects describing the same catalog entry.                    *)
(***************************************************************************)
ProfileIds == {"default", "work"}
Revisions == {"r0", "r1"}
Profiles == [id : ProfileIds, rev : Revisions]
NoProfile == [id |-> "none", rev |-> "none"]

\* call frames of updateCurrentProfile that may be suspended at the same time
Slots == {1, 2}

VARIABLES
    currentProfile,   \* this._currentProfile
    changeListeners,  \* listeners of _onDidChangeCurrentProfile, in registration order
    updateListeners,  \* listeners of _onDidUpdateCurrentProfile, in registration order
    slots,            \* per call of updateCurrentProfile: its frame while suspended
    catalog,          \* ids the userDataProfilesService recognizes
    effects           \* what the most recent handler run did (listeners invoked, result)

vars == <<currentProfile, changeListeners, updateListeners, slots, catalog,
          effects>>

IdleFrame == [pc |-> "idle", target |-> NoProfile, joiners |-> <<>>]

\* effects of a handler run that invoked nothing and completed nothing.
\* op: the handler that ran; slot, target: the call of updateCurrentProfile and
\* its target; change, update: the listener invocations, in order; result, errors,
\* joiners: how a call completed.  For a catalog event: first and matches are the
\* first of its updated entries that carries the id of the profile current when
\* it arrived and the number of such entries, others tells that it updates some
\* other id, elsewhere that the current id is among its added or removed ones.
Quiet == [op |-> "none", slot |-> 0, target |-> NoProfile,
          change |-> <<>>, update |-> <<>>,
          result |-> "none", errors |-> {}, joiners |-> <<>>,
          first |-> NoProfile, matches |-> 0, others |-> FALSE,
          elsewhere |-> FALSE]

(***************************************************************************)
(* Helpers.                                                                *)
(***************************************************************************)
RECURSIVE SumTo(_, _)
SumTo(f, n) == IF n = 0 THEN 0 ELSE f[n] + SumTo(f, n - 1)

\* What the listeners of one dispatch do with event.join: listener k of the
\* registry calls it j[k] times.
JoinChoices(n) == {j \in [1..n -> 0..MaxJoiners] : SumTo(j, n) <= MaxJoiners}

\* A find whose predicate accepts every entry.
FindAny(updated, id) == IF Len(updated) > 0 THEN 1 ELSE 0

\* A find that returns the last entry of updated whose id is id.
FindLastUpdated(updated, id) ==
    IF \E i \in 1..Len(updated) : updated[i].id = id
    THEN CHOOSE i \in 1..Len(updated) :
            /\ updated[i].id = id
            /\ \A k \in (i + 1)..Len(updated) : updated[k].id # id
    ELSE 0

\* Array.prototype.find of line 37: the first entry of updated whose id is id
\* (its index, 0 when there is none).
FindUpdated(updated, id) ==
    IF \E i \in 1..Len(updated) : updated[i].id = id
    THEN CHOOSE i \in 1..Len(updated) :
            /\ updated[i].id = id
            /\ \A k \in 1..(i - 1) : updated[k].id # id
    ELSE 0

\* Emitter.fire of _onDidChangeCurrentProfile: every registered listener, once,
\* in registration order, synchronously.  Each invocation is recorded with the
\* value of currentProfile the listener can read and the joins it makes.
FireChange(listeners, visible, event, joins) ==
    [k \in 1..Len(listeners) |->
        [listener |-> listeners[k], seen |-> visible, event |-> event,
         joined |-> joins[k]]]

\* Emitter.fire of _onDidUpdateCurrentProfile: every registered listener, once,
\* in registration order, with no payload.
FireUpdate(listeners, visible) ==
    [k \in 1..Len(listeners) |-> [listener |-> listeners[k], seen |-> visible]]

\* Promises.settled: resolves once every promise has settled; rejects when
\* some promise rejected, carrying the failures.
\* A settled that carries only the first failure.
SettledFirstError(joiners) ==
    [result |-> IF \E i \in 1..Len(joiners) : joiners[i] = "rejected"
                THEN "fail" ELSE "ok",
     errors |-> {i \in 1..Len(joiners) :
                    /\ joiners[i] = "rejected"
                    /\ \A k \in 1..(i - 1) : joiners[k] # "rejected"}]

AllSettled(joiners) == \A i \in 1..Len(joiners) : joiners[i] # "pending"

Failures(joiners) == {i \in 1..Len(joiners) : joiners[i] = "rejected"}

Settled(joiners) ==
    [result |-> IF Failures(joiners) = {} THEN "ok" ELSE "fail",
     errors |-> Failures(joiners)]

(***************************************************************************)
(* The synchronous part of updateCurrentProfile (lines 49-59) for a target *)
(* that passed the check of line 46: previous is captured, the field is    *)
(* assigned, then the event is fired; the joiners array holds one pending  *)
(* promise per join call.                                                  *)
(***************************************************************************)
\* The event fired before the assignment of line 50.
FireThenCommit(cur, userDataProfile, preserveData, listeners, joins) ==
    LET event == [previous |-> cur, profile |-> userDataProfile,
                  preserveData |-> preserveData]
    IN  [current |-> userDataProfile,
         previous |-> cur,
         log |-> FireChange(listeners, cur, event, joins),
         joiners |-> [i \in 1..SumTo(joins, Len(listeners)) |-> "pending"]]

\* The event fired without the assignment of line 50.
FireWithoutCommit(cur, userDataProfile, preserveData, listeners, joins) ==
    LET event == [previous |-> cur, profile |-> userDataProfile,
                  preserveData |-> preserveData]
    IN  [current |-> cur,
         previous |-> cur,
         log |-> FireChange(listeners, cur, event, joins),
         joiners |-> [i \in 1..SumTo(joins, Len(listeners)) |-> "pending"]]

\* The event fired a second time after the first dispatch.
CommitAndFireTwice(cur, userDataProfile, preserveData, listeners, joins) ==
    LET event == [previous |-> cur, profile |-> userDataProfile,
                  preserveData |-> preserveData]
        wave == FireChange(listeners, userDataProfile, event, joins)
    IN  [current |-> userDataProfile,
         previous |-> cur,
         log |-> wave \o wave,
         joiners |-> [i \in 1..SumTo(joins, Len(listeners)) |-> "pending"]]

\* The event built after the assignment of line 50, with previous read back
\* from the field.
CommitThenCapture(cur, userDataProfile, preserveData, listeners, joins) ==
    LET event == [previous |-> userDataProfile, profile |-> userDataProfile,
                  preserveData |-> preserveData]
    IN  [current |-> userDataProfile,
         previous |-> userDataProfile,
         log |-> FireChange(listeners, userDataProfile, event, joins),
         joiners |-> [i \in 1..SumTo(joins, Len(listeners)) |-> "pending"]]

CommitAndFire(cur, userDataProfile, preserveData, listeners, joins) ==
    LET previous == cur
        committed == userDataProfile
        event == [previous |-> previous, profile |-> userDataProfile,
                  preserveData |-> preserveData]
    IN  [current |-> committed,
         previous |-> previous,
         log |-> FireChange(listeners, committed, event, joins),
         joiners |-> [i \in 1..SumTo(joins, Len(listeners)) |-> "pending"]]

\* The check of line 46 made on the references instead of the ids.
SameReference(cur, userDataProfile) == cur = userDataProfile

\* line 46: the switch is a no-op
SameProfile(cur, userDataProfile) == cur.id = userDataProfile.id

(***************************************************************************)
(* Catalog change events the userDataProfilesService may emit when it      *)
(* recognizes the ids cat: the default profile is never removed, an added  *)
(* profile is new to the catalog, an updated one stays in it.              *)
(***************************************************************************)
RECURSIVE SeqsUpTo(_, _)
SeqsUpTo(S, n) ==
    IF n = 0 THEN {<<>>}
    ELSE LET shorter == SeqsUpTo(S, n - 1)
         IN  shorter \cup {Append(q, x) : q \in shorter, x \in S}

ChangeEvents(cat) ==
    {e \in [added : {<<>>} \cup {<<p>> : p \in {q \in Profiles : q.id \notin cat}},
            removed : {<<>>} \cup {<<i>> : i \in cat \ {"default"}},
            updated : SeqsUpTo({q \in Profiles : q.id \in cat}, MaxUpdated)] :
        \A k \in 1..Len(e.updated) :
            \A r \in 1..Len(e.removed) : e.updated[k].id # e.removed[r]}

CatalogAfter(cat, e) ==
    (cat \ {e.removed[r] : r \in 1..Len(e.removed)})
        \cup {e.added[a].id : a \in 1..Len(e.added)}

(***************************************************************************)
(* Initial state: the service as constructed (lines 30-43), no listener    *)
(* registered yet, no call of updateCurrentProfile made.                   *)
(***************************************************************************)
Init ==
    /\ currentProfile \in Profiles
    /\ changeListeners = <<>>
    /\ updateListeners = <<>>
    /\ slots = [c \in Slots |-> IdleFrame]
    /\ catalog = ProfileIds
    /\ effects = Quiet

(***************************************************************************)
(* Subscriptions (lines 22 and 25).                                        *)
(***************************************************************************)
OnDidChangeCurrentProfile ==
    /\ Len(changeListeners) < MaxListeners
    /\ changeListeners' = Append(changeListeners, Len(changeListeners) + 1)
    /\ effects' = Quiet
    /\ UNCHANGED <<currentProfile, updateListeners, slots, catalog>>

OnDidUpdateCurrentProfile ==
    /\ Len(updateListeners) < MaxListeners
    /\ updateListeners' = Append(updateListeners, Len(updateListeners) + 1)
    /\ effects' = Quiet
    /\ UNCHANGED <<currentProfile, changeListeners, slots, catalog>>

(***************************************************************************)
(* updateCurrentProfile up to its await (lines 45-60).  joins is what the  *)
(* listeners of this dispatch do with event.join.                          *)
(***************************************************************************)
UpdateCurrentProfile(c, userDataProfile, preserveData, joins) ==
    /\ slots[c].pc = "idle"
    /\ IF SameProfile(currentProfile, userDataProfile)
       THEN /\ effects' = [Quiet EXCEPT !.op = "updateCurrentProfile", !.slot = c,
                                        !.target = userDataProfile,
                                        !.result = "ok"]
            /\ UNCHANGED <<currentProfile, slots>>
       ELSE LET run == CommitAndFire(currentProfile, userDataProfile, preserveData,
                                     changeListeners, joins)
            IN  /\ currentProfile' = run.current
                /\ slots' = [slots EXCEPT ![c] =
                                [pc |-> "await", target |-> userDataProfile,
                                 joiners |-> run.joiners]]
                /\ effects' = [Quiet EXCEPT !.op = "updateCurrentProfile",
                                            !.slot = c,
                                            !.target = userDataProfile,
                                            !.change = run.log]
    /\ UNCHANGED <<changeListeners, updateListeners, catalog>>

(***************************************************************************)
(* A promise handed to event.join (lines 56-58) settles.                   *)
(***************************************************************************)
SettleJoiner(c, i, outcome) ==
    /\ slots[c].pc = "await"
    /\ i \in 1..Len(slots[c].joiners)
    /\ slots[c].joiners[i] = "pending"
    /\ slots' = [slots EXCEPT ![c].joiners[i] = outcome]
    /\ effects' = [Quiet EXCEPT !.op = "settle", !.slot = c]
    /\ UNCHANGED <<currentProfile, changeListeners, updateListeners, catalog>>

(***************************************************************************)
(* Variants of the resumption below: one that resumes at the first         *)
(* rejection (the await of a Promise.all), one that drops the rejections.  *)
(***************************************************************************)
ResumeAtFirstRejection(c) ==
    /\ slots[c].pc = "await"
    /\ AllSettled(slots[c].joiners) \/ Failures(slots[c].joiners) # {}
    /\ slots' = [slots EXCEPT ![c] = IdleFrame]
    /\ effects' = [Quiet EXCEPT !.op = "complete", !.slot = c,
                                !.target = slots[c].target,
                                !.joiners = slots[c].joiners,
                                !.result = Settled(slots[c].joiners).result,
                                !.errors = Settled(slots[c].joiners).errors]
    /\ UNCHANGED <<currentProfile, changeListeners, updateListeners, catalog>>

ResumeDroppingRejections(c) ==
    /\ slots[c].pc = "await"
    /\ AllSettled(slots[c].joiners)
    /\ slots' = [slots EXCEPT ![c] = IdleFrame]
    /\ effects' = [Quiet EXCEPT !.op = "complete", !.slot = c,
                                !.target = slots[c].target,
                                !.joiners = slots[c].joiners,
                                !.result = "ok"]
    /\ UNCHANGED <<currentProfile, changeListeners, updateListeners, catalog>>

\* A resumption that waits for the promises of every suspended call and
\* fails on a rejection of any of them (one array of joiners for the service).
ResumeSharedBarrier(c) ==
    LET all == slots[1].joiners \o slots[2].joiners
    IN  /\ slots[c].pc = "await"
        /\ AllSettled(all)
        /\ slots' = [slots EXCEPT ![c] = IdleFrame]
        /\ effects' = [Quiet EXCEPT !.op = "complete", !.slot = c,
                                    !.target = slots[c].target,
                                    !.joiners = slots[c].joiners,
                                    !.result = Settled(all).result,
                                    !.errors = Settled(all).errors]
        /\ UNCHANGED <<currentProfile, changeListeners, updateListeners,
                       catalog>>

\* A resumption that assigns the target once more.
ResumeRecommitting(c) ==
    /\ slots[c].pc = "await"
    /\ AllSettled(slots[c].joiners)
    /\ currentProfile' = slots[c].target
    /\ slots' = [slots EXCEPT ![c] = IdleFrame]
    /\ effects' = [Quiet EXCEPT !.op = "complete", !.slot = c,
                                !.target = slots[c].target,
                                !.joiners = slots[c].joiners,
                                !.result = Settled(slots[c].joiners).result,
                                !.errors = Settled(slots[c].joiners).errors]
    /\ UNCHANGED <<changeListeners, updateListeners, catalog>>

(***************************************************************************)
(* The await of line 60 resumes and updateCurrentProfile returns or        *)
(* throws (lines 60-61).                                                   *)
(***************************************************************************)
Resume(c) ==
    /\ slots[c].pc = "await"
    /\ AllSettled(slots[c].joiners)
    /\ slots' = [slots EXCEPT ![c] = IdleFrame]
    /\ effects' = [Quiet EXCEPT !.op = "complete", !.slot = c,
                                !.target = slots[c].target,
                                !.joiners = slots[c].joiners,
                                !.result = Settled(slots[c].joiners).result,
                                !.errors = Settled(slots[c].joiners).errors]
    /\ UNCHANGED <<currentProfile, changeListeners, updateListeners, catalog>>

(***************************************************************************)
(* A handler that looks for the current profile among the added entries    *)
(* as well as the updated ones.                                            *)
(***************************************************************************)
OnDidChangeProfilesAnyList(e) ==
    LET found == FindUpdated(e.added \o e.updated, currentProfile.id)
        aside == {e.added[a].id : a \in 1..Len(e.added)}
                    \cup {e.removed[r] : r \in 1..Len(e.removed)}
        Matches(p) == p.id = currentProfile.id
        hits == SelectSeq(e.updated, Matches)
        summary == [Quiet EXCEPT
                       !.op = "batch",
                       !.first = IF hits = <<>> THEN NoProfile ELSE Head(hits),
                       !.matches = Len(hits),
                       !.others = (Len(hits) < Len(e.updated)),
                       !.elsewhere = (currentProfile.id \in aside)]
    IN  /\ catalog' = CatalogAfter(catalog, e)
        /\ IF found # 0
           THEN /\ currentProfile' = (e.added \o e.updated)[found]
                /\ effects' = [summary EXCEPT
                                  !.update = FireUpdate(updateListeners,
                                                        (e.added \o e.updated)[found])]
           ELSE /\ effects' = summary
                /\ UNCHANGED currentProfile
        /\ UNCHANGED <<changeListeners, updateListeners, slots>>

(***************************************************************************)
(* The handler of userDataProfilesService.onDidChangeProfiles              *)
(* (lines 36-42), run synchronously when the catalog emits e.              *)
(***************************************************************************)
OnDidChangeProfiles(e) ==
    LET found == FindUpdated(e.updated, currentProfile.id)
        aside == {e.added[a].id : a \in 1..Len(e.added)}
                    \cup {e.removed[r] : r \in 1..Len(e.removed)}
        Matches(p) == p.id = currentProfile.id
        hits == SelectSeq(e.updated, Matches)
        summary == [Quiet EXCEPT
                       !.op = "batch",
                       !.first = IF hits = <<>> THEN NoProfile ELSE Head(hits),
                       !.matches = Len(hits),
                       !.others = (Len(hits) < Len(e.updated)),
                       !.elsewhere = (currentProfile.id \in aside)]
    IN  /\ catalog' = CatalogAfter(catalog, e)
        /\ IF found # 0
           THEN /\ currentProfile' = e.updated[found]
                /\ effects' = [summary EXCEPT
                                  !.update = FireUpdate(updateListeners,
                                                        e.updated[found])]
           ELSE /\ effects' = summary
                /\ UNCHANGED currentProfile
        /\ UNCHANGED <<changeListeners, updateListeners, slots>>

(***************************************************************************)
(* Specifications.  Spec: the callers serialize their calls of             *)
(* updateCurrentProfile, as the service expects of them: a call is made    *)
(* when no earlier call is suspended.  SpecOverlap: a second call may be   *)
(* made while a first one is suspended at its await (the service itself    *)
(* does not serialize them); the catalog is quiet.                         *)
(***************************************************************************)
FreeSlot == CHOOSE c \in Slots : slots[c].pc = "idle" /\
                \A d \in Slots : slots[d].pc = "idle" => c <= d

Switch ==
    /\ \A c \in Slots : slots[c].pc = "idle"
    /\ \E p \in Profiles, preserveData \in BOOLEAN,
          joins \in JoinChoices(Len(changeListeners)) :
            UpdateCurrentProfile(FreeSlot, p, preserveData, joins)

SwitchOverlap ==
    /\ \E c \in Slots : slots[c].pc = "idle"
    /\ \E p \in Profiles, preserveData \in BOOLEAN,
          joins \in JoinChoices(Len(changeListeners)) :
            UpdateCurrentProfile(FreeSlot, p, preserveData, joins)

Settle ==
    \E c \in Slots, i \in 1..MaxJoiners, outcome \in {"fulfilled", "rejected"} :
        SettleJoiner(c, i, outcome)

Return == \E c \in Slots : Resume(c)

CatalogChange == \E e \in ChangeEvents(catalog) : OnDidChangeProfiles(e)

Next ==
    \/ OnDidChangeCurrentProfile
    \/ OnDidUpdateCurrentProfile
    \/ Switch
    \/ Settle
    \/ Return
    \/ CatalogChange

NextOverlap ==
    \/ OnDidChangeCurrentProfile
    \/ OnDidUpdateCurrentProfile
    \/ SwitchOverlap
    \/ Settle
    \/ Return

Spec == Init /\ [][Next]_vars

SpecOverlap == Init /\ [][NextOverlap]_vars

(***************************************************************************)
(* Reading the effects of the most recent handler run.                     *)
(***************************************************************************)
Called == effects.op = "updateCurrentProfile"
Switched == Called /\ effects.result = "none"
Completed == effects.op = "complete"
Reconciled == effects.op = "batch" /\ effects.matches > 0
Missed == effects.op = "batch" /\ effects.matches = 0

Invoked(log) == [k \in 1..Len(log) |-> log[k].listener]

Awaiting(c) == slots[c].pc = "await"

(***************************************************************************)
(* C1.  No-op switch: a call of updateCurrentProfile whose target carries  *)
(* the id of the current profile invokes no change listener and no update  *)
(* listener, leaves currentProfile as it is (also when the target's other  *)
(* attributes differ), suspends nothing and completes successfully.        *)
(***************************************************************************)
C1_NoOpSwitch ==
    [][(effects'.op = "updateCurrentProfile"
            /\ effects'.target.id = currentProfile.id)
        => /\ currentProfile' = currentProfile
           /\ effects'.change = <<>>
           /\ effects'.update = <<>>
           /\ effects'.result = "ok"
           /\ slots' = slots]_vars

C1_Witness ==
    /\ Called
    /\ effects.target.id = currentProfile.id
    /\ effects.target # currentProfile
    /\ Len(changeListeners) > 0
    /\ Len(updateListeners) > 0

(***************************************************************************)
(* C2, as stated.  For a switch that is not a no-op, every change listener *)
(* reads the target as currentProfile during its invocation, and every     *)
(* read made after the commit while a joined promise is unsettled yields   *)
(* the target.                                                             *)
(***************************************************************************)
C2_Original ==
    /\ Switched => \A k \in 1..Len(effects.change) :
                        effects.change[k].seen = effects.target
    /\ \A c \in Slots :
            (Awaiting(c) /\ ~AllSettled(slots[c].joiners))
                => currentProfile = slots[c].target

(***************************************************************************)
(* C2, amended.  For a switch that is not a no-op, made while no other     *)
(* call is suspended: every change listener reads the target as            *)
(* currentProfile during its invocation and the target is current when the *)
(* dispatch returns; until the call completes every read yields a profile  *)
(* with the target's id, and the value read changes only when a catalog    *)
(* event updates that id (it is then the updated entry).                   *)
(***************************************************************************)
C2_CommitBeforeAnnounce ==
    /\ [](/\ Switched =>
                /\ currentProfile = effects.target
                /\ \A k \in 1..Len(effects.change) :
                        effects.change[k].seen = effects.target
          /\ \A c \in Slots :
                Awaiting(c) => currentProfile.id = slots[c].target.id)
    /\ [][\A c \in Slots :
            (Awaiting(c) /\ slots'[c].pc = "await"
                /\ currentProfile' # currentProfile)
                => /\ effects'.op = "batch"
                   /\ effects'.matches > 0
                   /\ currentProfile' = effects'.first]_vars

C2_Witness ==
    /\ \E c \in Slots :
            /\ Awaiting(c)
            /\ ~AllSettled(slots[c].joiners)
            /\ currentProfile # slots[c].target
    /\ Reconciled

(***************************************************************************)
(* C3.  Join barrier: the frame of a switch holds one promise per join     *)
(* call of its dispatch, keeps every one of them until it resumes, and     *)
(* resumes (the result completes, successfully or not) only from a state   *)
(* in which every one of them has settled, whatever the order in which     *)
(* they settle.                                                            *)
(***************************************************************************)
TotalJoined(log) ==
    LET joined == [k \in 1..Len(log) |-> log[k].joined]
    IN  SumTo(joined, Len(log))

C3_JoinBarrier ==
    [][/\ \A c \in Slots :
            /\ (slots[c].pc = "idle" /\ slots'[c].pc = "await")
                => /\ Len(slots'[c].joiners) = TotalJoined(effects'.change)
                   /\ effects'.result = "none"
            /\ (Awaiting(c) /\ slots'[c].pc = "await")
                => /\ Len(slots'[c].joiners) = Len(slots[c].joiners)
                   /\ \A i \in 1..Len(slots[c].joiners) :
                        slots[c].joiners[i] # "pending"
                            => slots'[c].joiners[i] = slots[c].joiners[i]
                   /\ effects'.result = "none"
            /\ (Awaiting(c) /\ slots'[c].pc = "idle")
                => /\ AllSettled(slots[c].joiners)
                   /\ effects'.op = "complete"
                   /\ effects'.result \in {"ok", "fail"}
       /\ effects'.op = "complete"
            => \E c \in Slots : Awaiting(c) /\ slots'[c].pc = "idle"]_vars

C3_Witness ==
    /\ Len(changeListeners) >= 2
    /\ \E c \in Slots :
            /\ Awaiting(c)
            /\ slots[c].joiners = <<"pending", "rejected">>

(***************************************************************************)
(* C4.  A rejected joiner neither short-circuits nor rolls back: the       *)
(* result of a switch fails exactly when one of its joiners was rejected,  *)
(* in either case only with every joiner settled, and the profile of the   *)
(* target's id (not the previous one) is still current.                    *)
(***************************************************************************)
C4_FailureWaitsAndKeepsCommit ==
    Completed =>
        /\ AllSettled(effects.joiners)
        /\ effects.result = "fail"
            <=> (\E i \in 1..Len(effects.joiners) : effects.joiners[i] = "rejected")
        /\ effects.result = "ok"
            <=> (\A i \in 1..Len(effects.joiners) : effects.joiners[i] = "fulfilled")
        /\ currentProfile.id = effects.target.id

C4_Witness ==
    /\ Completed
    /\ effects.result = "fail"
    /\ effects.joiners = <<"rejected", "fulfilled">>

(***************************************************************************)
(* C5, as stated.  Whenever the result of a switch completes,              *)
(* currentProfile equals the target and every joiner has settled (the      *)
(* calls do not overlap; catalog events may arrive during the wait).       *)
(***************************************************************************)
C5_Original ==
    Completed => /\ currentProfile = effects.target
                 /\ AllSettled(effects.joiners)

(***************************************************************************)
(* C5, amended.  Whenever the result of a switch completes, currentProfile *)
(* carries the target's id (it is the target, or the entry by which a      *)
(* catalog event updated that id during the wait) and every joiner has     *)
(* settled (the calls do not overlap).                                     *)
(***************************************************************************)
C5_ResultGuarantee ==
    Completed => /\ currentProfile.id = effects.target.id
                 /\ effects.target \in Profiles
                 /\ AllSettled(effects.joiners)

C5_Witness ==
    /\ Completed
    /\ Len(effects.joiners) > 0
    /\ currentProfile # effects.target

(***************************************************************************)
(* C6.  Exactly-once ordered dispatch: a switch invokes the change         *)
(* listeners registered when it is made once each, in registration order,  *)
(* in one wave that is over when the call suspends; the settling of a      *)
(* joiner and the completion of the call invoke no change listener.        *)
(***************************************************************************)
C6_DispatchOnceInOrder ==
    /\ Switched =>
            /\ Invoked(effects.change) = changeListeners
            /\ Awaiting(effects.slot)
    /\ effects.op \in {"settle", "complete"} => effects.change = <<>>

C6_Witness ==
    /\ Switched
    /\ Len(effects.change) >= 2
    /\ effects.change[1].joined > 0

(***************************************************************************)
(* C7.  Reconciliation isolation: a catalog event with an updated entry    *)
(* that carries the current id makes an updated entry of that id current   *)
(* before it notifies, invokes every update listener once (also with       *)
(* several such entries), invokes no change listener, and suspends and     *)
(* joins nothing.                                                          *)
(***************************************************************************)
C7_ReconciliationIsolation ==
    /\ [](Reconciled =>
            /\ currentProfile.id = effects.first.id
            /\ effects.matches = 1 => currentProfile = effects.first
            /\ Invoked(effects.update) = updateListeners
            /\ \A k \in 1..Len(effects.update) :
                    effects.update[k].seen = currentProfile
            /\ effects.change = <<>>
            /\ effects.result = "none")
    /\ [][effects'.op = "batch" => slots' = slots]_vars

C7_Witness ==
    /\ Reconciled
    /\ effects.matches >= 2
    /\ Len(effects.update) >= 2
    /\ Len(changeListeners) >= 1

(***************************************************************************)
(* C8.  Reconciliation frame: a catalog event without an updated entry of  *)
(* the current id leaves currentProfile as it is and invokes no listener,  *)
(* also when that id is among its added or removed entries and when it     *)
(* arrives during a switch and updates only another profile.               *)
(***************************************************************************)
C8_ReconciliationFrame ==
    [][(effects'.op = "batch" /\ effects'.matches = 0)
        => /\ currentProfile' = currentProfile
           /\ effects'.update = <<>>
           /\ effects'.change = <<>>
           /\ slots' = slots]_vars

C8_Witness ==
    /\ Missed
    /\ effects.elsewhere
    /\ effects.others
    /\ \E c \in Slots : Awaiting(c)
    /\ Len(updateListeners) >= 1
    /\ Len(changeListeners) >= 1

(***************************************************************************)
(* C9.  Aggregated failure: the failure of a switch's result carries the   *)
(* failure of every rejected joiner of that switch.                        *)
(***************************************************************************)
C9_AggregatedFailure ==
    Completed =>
        effects.errors = {i \in 1..Len(effects.joiners) :
                            effects.joiners[i] = "rejected"}

C9_Witness ==
    /\ Completed
    /\ Cardinality(effects.errors) >= 2

(***************************************************************************)
(* C10.  Catalog membership: whenever currentProfile has just been set (by *)
(* a switch, whose target may be any profile, or by a reconciliation), its *)
(* id is one the catalog recognizes.                                       *)
(***************************************************************************)
C10_CatalogMembership ==
    (Switched \/ Reconciled) => currentProfile.id \in catalog

(***************************************************************************)
(* SpecLive: the serialized callers with the scheduling the claim of       *)
(* liveness assumes: the continuation of the await of line 60 runs once it *)
(* can (the job queue of the runtime), and a joined promise that is        *)
(* pending is eventually settled by the listener that supplied it.  The    *)
(* catalog emits events that update at most one profile.                   *)
(***************************************************************************)
SingleUpdates(cat) ==
    {e \in ChangeEvents(cat) :
        e.added = <<>> /\ e.removed = <<>> /\ Len(e.updated) <= 1}

CatalogUpdate == \E e \in SingleUpdates(catalog) : OnDidChangeProfiles(e)

NextLive ==
    \/ OnDidChangeCurrentProfile
    \/ OnDidUpdateCurrentProfile
    \/ Switch
    \/ Settle
    \/ Return
    \/ CatalogUpdate

SpecLive == Init /\ [][NextLive]_vars /\ WF_vars(Return) /\ WF_vars(Settle)

(***************************************************************************)
(* C11.  Switch liveness without cancellation: a switch that passed the    *)
(* no-op check has its target current when its dispatch returns; while one *)
(* of its joiners is pending the call stays suspended (no timeout, no      *)
(* abort) and the committed id stays current; if every joiner eventually   *)
(* settles the call eventually completes.                                  *)
(***************************************************************************)
C11_SwitchLiveness ==
    /\ [](Switched => currentProfile = effects.target)
    /\ [][\A c \in Slots :
            (Awaiting(c) /\ ~AllSettled(slots[c].joiners))
                => /\ slots'[c].pc = "await"
                   /\ slots'[c].target = slots[c].target
                   /\ effects'.op # "complete"
                   /\ currentProfile'.id = currentProfile.id]_vars
    /\ \A c \in Slots : Awaiting(c) ~> ~Awaiting(c)

C11_Witness ==
    /\ Completed
    /\ effects.result = "ok"
    /\ Len(effects.joiners) >= 2
    /\ Len(changeListeners) >= 2

(***************************************************************************)
(* getShortName (lines 63-74).  A string is a sequence of characters; the  *)
(* optional shortName is the empty sequence (undefined) or a sequence      *)
(* holding one string.                                                     *)
(***************************************************************************)
\* characters of a name
MaxName == 3

Chars == {"a", "W", "1"}

Names == SeqsUpTo(Chars, MaxName)

ShortNames == {<<>>, << <<>> >>, << <<"a">> >>, << <<"A", "B">> >>}

NamedProfiles ==
    [isDefault : BOOLEAN, shortName : ShortNames, isTransient : BOOLEAN,
     name : Names]

\* `$(${defaultUserDataProfileIcon.id})` with the icon registered at line 15
DefaultToken == <<"$(defaultProfile-icon)">>

\* String.prototype.toUpperCase on one character
ToUpperCase(ch) ==
    CASE ch = "a" -> "A"
      [] ch = "w" -> "W"
      [] OTHER -> ch

UpperString(str) == [i \in 1..Len(str) |-> ToUpperCase(str[i])]

\* String.prototype.substring(0, end)
Substring(str, end) == SubSeq(str, 1, IF end < Len(str) THEN end ELSE Len(str))

\* String.prototype.charAt(index), index counted from 0: the empty string
\* when index is out of range
CharAt(str, index) ==
    IF index >= 0 /\ index < Len(str) THEN <<str[index + 1]>> ELSE <<>>

\* the test of line 67: undefined and the empty string are falsy
Truthy(shortName) == shortName # <<>> /\ shortName[1] # <<>>

\* A getShortName that tests isTransient before shortName.
GetShortNameTransientFirst(profile) ==
    IF profile.isDefault THEN DefaultToken
    ELSE IF profile.isTransient
         THEN <<"T">> \o CharAt(profile.name, Len(profile.name) - 1)
    ELSE IF Truthy(profile.shortName) THEN profile.shortName[1]
    ELSE UpperString(Substring(profile.name, 2))

\* A getShortName that takes the first character of the name of a transient
\* profile.
GetShortNameFirstChar(profile) ==
    IF profile.isDefault THEN DefaultToken
    ELSE IF Truthy(profile.shortName) THEN profile.shortName[1]
    ELSE IF profile.isTransient THEN <<"T">> \o CharAt(profile.name, 0)
    ELSE UpperString(Substring(profile.name, 2))

GetShortName(profile) ==
    IF profile.isDefault THEN DefaultToken
    ELSE IF Truthy(profile.shortName) THEN profile.shortName[1]
    ELSE IF profile.isTransient
         THEN <<"T">> \o CharAt(profile.name, Len(profile.name) - 1)
    ELSE UpperString(Substring(profile.name, 2))

\* A call of getShortName: it reads its argument and returns.
GetShortNameCall(profile) ==
    /\ effects' = [op |-> "getShortName", profile |-> profile,
                   shortName |-> GetShortName(profile)]
    /\ UNCHANGED <<currentProfile, changeListeners, updateListeners, slots,
                   catalog>>

NextShortName == \E profile \in NamedProfiles : GetShortNameCall(profile)

SpecShortName == Init /\ [][NextShortName]_vars

Named == effects.op = "getShortName"

\* the profile is neither the default one nor one with a shortName
Unlabelled(profile) == ~profile.isDefault /\ ~Truthy(profile.shortName)

(***************************************************************************)
(* C12.  Short-name precedence: getShortName returns the default token for *)
(* a default profile; otherwise a non-empty shortName verbatim; otherwise  *)
(* the token that starts with T for a transient profile; otherwise the     *)
(* first two characters of the name in upper case, or the whole name in    *)
(* upper case when it has fewer than two.  The call changes nothing of the *)
(* service.                                                                *)
(***************************************************************************)
C12_ShortNamePrecedence ==
    /\ [](Named =>
            LET p == effects.profile
                r == effects.shortName
            IN  /\ p.isDefault => r = DefaultToken
                /\ (~p.isDefault /\ Truthy(p.shortName)) => r = p.shortName[1]
                /\ (Unlabelled(p) /\ p.isTransient) => (r # <<>> /\ r[1] = "T")
                /\ (Unlabelled(p) /\ ~p.isTransient) =>
                        /\ Len(r) = (IF Len(p.name) < 2 THEN Len(p.name) ELSE 2)
                        /\ \A i \in 1..Len(r) : r[i] = ToUpperCase(p.name[i]))
    /\ [][effects'.op = "getShortName" =>
            UNCHANGED <<currentProfile, changeListeners, updateListeners, slots,
                        catalog>>]_vars

C12_Witness ==
    /\ Named
    /\ Unlabelled(effects.profile)
    /\ ~effects.profile.isTransient
    /\ effects.profile.name = <<"a">>
    /\ effects.shortName = <<"A">>

(***************************************************************************)
(* C13, as stated.  For a transient profile that is not the default one    *)
(* and has no non-empty shortName, getShortName returns two characters, T  *)
(* and the last character of the name, for every name, the empty one       *)
(* included.                                                               *)
(***************************************************************************)
C13_Original ==
    (Named /\ Unlabelled(effects.profile) /\ effects.profile.isTransient) =>
        /\ Len(effects.shortName) = 2
        /\ effects.shortName[1] = "T"
        /\ effects.shortName[2] = effects.profile.name[Len(effects.profile.name)]

(***************************************************************************)
(* C13, amended.  For a transient profile that is not the default one and  *)
(* has no non-empty shortName, getShortName returns T followed by the last *)
(* character of the name when the name is not empty (two characters, also  *)
(* for a name of one character), and the single character T when the name  *)
(* is empty.                                                               *)
(***************************************************************************)
C13_TransientShortName ==
    (Named /\ Unlabelled(effects.profile) /\ effects.profile.isTransient) =>
        LET name == effects.profile.name
        IN  IF name = <<>>
            THEN effects.shortName = <<"T">>
            ELSE effects.shortName = <<"T", name[Len(name)]>>

C13_Witness ==
    /\ Named
    /\ Unlabelled(effects.profile)
    /\ effects.profile.isTransient
    /\ effects.profile.name = <<>>
    /\ effects.shortName = <<"T">>

(***************************************************************************)
(* Reconciliation with update listeners that may fail.  The handler of     *)
(* lines 36-42 is the same; the run is recorded with every entry of the    *)
(* batch that carries the current id, the listeners that were invoked,     *)
(* those of them that threw, and whether a failure came back into the      *)
(* handler.                                                                *)
(***************************************************************************)
ThrowChoices(n) == [1..n -> BOOLEAN]

\* An Emitter.fire that lets the first failure of a listener escape: the
\* listeners after it are not invoked and the failure reaches the caller.
FireUpdateUnguarded(listeners, visible, throws) ==
    LET failing == {k \in 1..Len(listeners) : throws[k]}
        last == IF failing = {} THEN Len(listeners)
                ELSE CHOOSE k \in failing : \A j \in failing : k <= j
    IN  [log |-> [k \in 1..last |->
                    [listener |-> listeners[k], seen |-> visible,
                     threw |-> throws[k]]],
         raised |-> failing # {}]

\* Emitter.fire of _onDidUpdateCurrentProfile with listeners that may throw:
\* every registered listener is invoked once, in registration order; what a
\* listener throws is handed to the error handler and does not reach the
\* caller of fire.
FireUpdateGuarded(listeners, visible, throws) ==
    [log |-> [k \in 1..Len(listeners) |->
                [listener |-> listeners[k], seen |-> visible,
                 threw |-> throws[k]]],
     raised |-> FALSE]

OnDidChangeProfilesObserved(e, throws) ==
    LET found == FindUpdated(e.updated, currentProfile.id)
        Matches(p) == p.id = currentProfile.id
        hits == SelectSeq(e.updated, Matches)
    IN  /\ catalog' = CatalogAfter(catalog, e)
        /\ IF found # 0
           THEN LET fired == FireUpdateGuarded(updateListeners,
                                               e.updated[found], throws)
                IN  /\ currentProfile' = e.updated[found]
                    /\ effects' = [op |-> "batch", before |-> currentProfile,
                                   hits |-> hits, update |-> fired.log,
                                   raised |-> fired.raised]
           ELSE /\ effects' = [op |-> "batch", before |-> currentProfile,
                               hits |-> hits, update |-> <<>>,
                               raised |-> FALSE]
                /\ UNCHANGED currentProfile
        /\ UNCHANGED <<changeListeners, updateListeners, slots>>

CatalogChangeObserved ==
    \E e \in ChangeEvents(catalog),
       throws \in ThrowChoices(Len(updateListeners)) :
        OnDidChangeProfilesObserved(e, throws)

NextCatalog ==
    \/ OnDidUpdateCurrentProfile
    \/ Switch
    \/ Return
    \/ CatalogChangeObserved

SpecCatalog == Init /\ [][NextCatalog]_vars

Batch == effects.op = "batch"

Threw(log) == {k \in 1..Len(log) : log[k].threw}

(***************************************************************************)
(* C14.  Update-listener isolation: when a batch updates the current       *)
(* profile and some update listener throws, the failure does not come back *)
(* into the handler, currentProfile stays the updated entry, and every     *)
(* registered update listener, those after the failing one included, has   *)
(* been invoked once in registration order and has seen the updated entry. *)
(***************************************************************************)
C14_UpdateListenerIsolation ==
    (Batch /\ effects.hits # <<>>) =>
        /\ ~effects.raised
        /\ currentProfile = effects.hits[1]
        /\ Invoked(effects.update) = updateListeners
        /\ \A k \in 1..Len(effects.update) :
                effects.update[k].seen = currentProfile

C14_Witness ==
    /\ Batch
    /\ effects.hits # <<>>
    /\ Len(effects.update) >= 2
    /\ effects.update[1].threw
    /\ ~effects.update[2].threw
    /\ currentProfile # effects.before

(***************************************************************************)
(* C15.  First match wins: when the updated list of a batch holds several  *)
(* entries with the id of the current profile, currentProfile after the    *)
(* handler is the first of them, whatever the later ones are.              *)
(***************************************************************************)
C15_FirstMatchWins ==
    (Batch /\ Len(effects.hits) >= 2) =>
        /\ currentProfile = Head(effects.hits)
        /\ \A k \in 2..Len(effects.hits) :
                effects.hits[k] # Head(effects.hits)
                    => currentProfile # effects.hits[k]

C15_Witness ==
    /\ Batch
    /\ Len(effects.hits) >= 2
    /\ effects.hits[2] # effects.hits[1]
    /\ effects.hits[2] = effects.before
    /\ currentProfile = effects.hits[1]

(***************************************************************************)
(* C16.  Writers of current: a step changes currentProfile only when it is *)
(* the commit of a switch (the new value is the target) or a               *)
(* reconciliation (the new value is the first updated entry with the       *)
(* current id); the handling of a catalog event never changes              *)
(* currentProfile.id; a settlement of a joined promise, fulfilled or       *)
(* rejected, and the completion of a switch leave currentProfile as it is. *)
(***************************************************************************)
C16_WritersOfCurrent ==
    /\ [][currentProfile' # currentProfile =>
            \/ /\ effects'.op = "updateCurrentProfile"
               /\ effects'.result = "none"
               /\ currentProfile' = effects'.target
            \/ /\ effects'.op = "batch"
               /\ effects'.matches > 0
               /\ currentProfile' = effects'.first]_vars
    /\ [][effects'.op = "batch" => currentProfile'.id = currentProfile.id]_vars
    /\ [][effects'.op \in {"settle", "complete", "none"}
            => currentProfile' = currentProfile]_vars

C16_Witness ==
    /\ Completed
    /\ effects.result = "fail"
    /\ currentProfile.id = effects.target.id
    /\ currentProfile # effects.target
    /\ catalog # ProfileIds

(***************************************************************************)
(* C17.  Switch event content: in a switch that is not a no-op, called     *)
(* with target userDataProfile and argument preserveData, every change     *)
(* listener receives an event whose previous is the value currentProfile   *)
(* had when the call was made, whose profile is the target, whose          *)
(* preserveData is the argument, and whose previous.id differs from        *)
(* profile.id.                                                             *)
(***************************************************************************)
C17_SwitchEventContent ==
    [][(effects'.op = "updateCurrentProfile" /\ effects'.result = "none") =>
        LET joins == [k \in 1..Len(changeListeners) |->
                        effects'.change[k].joined]
        IN  \A preserveData \in BOOLEAN :
                UpdateCurrentProfile(effects'.slot, effects'.target,
                                     preserveData, joins)
                    => \A k \in 1..Len(effects'.change) :
                        LET event == effects'.change[k].event
                        IN  /\ event.previous = currentProfile
                            /\ event.profile = effects'.target
                            /\ event.preserveData = preserveData
                            /\ event.previous.id # event.profile.id]_vars

C17_Witness ==
    /\ Switched
    /\ Len(effects.change) >= 2
    /\ effects.change[2].event.preserveData
    /\ effects.change[2].event.previous.id # currentProfile.id
    /\ effects.change[2].event.profile = currentProfile

(***************************************************************************)
(* Overlapping calls of updateCurrentProfile with change listeners only:   *)
(* a call may be made while another one is suspended at its await; the     *)
(* catalog is quiet and no update listener is registered.                  *)
(***************************************************************************)
\* promises joined in one dispatch of an overlapping call
MaxOverlapJoiners == 1

BarrierChoices(n) ==
    {j \in JoinChoices(n) : SumTo(j, n) <= MaxOverlapJoiners}

SwitchBarriers ==
    /\ \E c \in Slots : slots[c].pc = "idle"
    /\ \E p \in Profiles, preserveData \in BOOLEAN,
          joins \in BarrierChoices(Len(changeListeners)) :
            UpdateCurrentProfile(FreeSlot, p, preserveData, joins)

NextBarriers ==
    \/ OnDidChangeCurrentProfile
    \/ SwitchBarriers
    \/ Settle
    \/ Return

SpecBarriers == Init /\ [][NextBarriers]_vars

(***************************************************************************)
(* C18.  Overlapping switches keep separate barriers.  A call that commits *)
(* while another one is suspended makes its target current and leaves the  *)
(* other call's joiners as they are, its own joiners being the promises    *)
(* joined through its own event.  A suspended call can complete as soon as *)
(* its own joiners have settled, completes only then, and fails exactly    *)
(* when one of its own joiners was rejected, whatever the state of the     *)
(* other call's joiners.  A completion, the first call's after the second  *)
(* commit included, leaves currentProfile and the other call as they are.  *)
(***************************************************************************)
C18_SeparateBarriers ==
    /\ [](\A c \in Slots :
            (Awaiting(c) /\ AllSettled(slots[c].joiners)) => ENABLED Resume(c))
    /\ [][\A c \in Slots : \A d \in Slots \ {c} :
            (~Awaiting(c) /\ slots'[c].pc = "await") =>
                /\ currentProfile' = slots'[c].target
                /\ Len(slots'[c].joiners) = TotalJoined(effects'.change)
                /\ slots'[d] = slots[d]]_vars
    /\ [][\A c \in Slots : \A d \in Slots \ {c} :
            (Awaiting(c) /\ slots'[c].pc = "idle") =>
                /\ AllSettled(slots[c].joiners)
                /\ effects'.op = "complete"
                /\ effects'.joiners = slots[c].joiners
                /\ effects'.result =
                        (IF Failures(slots[c].joiners) = {} THEN "ok" ELSE "fail")
                /\ effects'.errors = Failures(slots[c].joiners)
                /\ slots'[d] = slots[d]
                /\ currentProfile' = currentProfile]_vars

C18_Witness ==
    /\ Completed
    /\ effects.result = "ok"
    /\ effects.joiners # <<>>
    /\ currentProfile # effects.target
    /\ \E d \in Slots :
            /\ Awaiting(d)
            /\ Failures(slots[d].joiners) # {}
            /\ currentProfile = slots[d].target

(***************************************************************************)
(* Calls of event.join made after the dispatch has returned.  The closure  *)
(* of lines 56-58 stays callable and pushes into the joiners array of its  *)
(* call; the await of line 60 was given the array as it was when fire      *)
(* returned.  The frame keeps the promises pushed afterwards in late.      *)
(***************************************************************************)
\* promises joined to one call after its dispatch
MaxLate == 2

Late(frame) == IF "late" \in DOMAIN frame THEN frame.late ELSE <<>>

\* A listener that kept the event of call c calls event.join again.
LateJoin(c) ==
    /\ slots[c].pc = "await"
    /\ Len(changeListeners) > 0
    /\ Len(Late(slots[c])) < MaxLate
    /\ slots' = [slots EXCEPT ![c] =
                    [pc |-> "await", target |-> slots[c].target,
                     joiners |-> slots[c].joiners,
                     late |-> Append(Late(slots[c]), "pending")]]
    /\ effects' = [Quiet EXCEPT !.op = "join", !.slot = c]
    /\ UNCHANGED <<currentProfile, changeListeners, updateListeners, catalog>>

\* A promise joined after the dispatch settles.
SettleLate(c, i, outcome) ==
    /\ slots[c].pc = "await"
    /\ i \in 1..Len(Late(slots[c]))
    /\ slots[c].late[i] = "pending"
    /\ slots' = [slots EXCEPT ![c].late[i] = outcome]
    /\ effects' = [Quiet EXCEPT !.op = "settleLate", !.slot = c]
    /\ UNCHANGED <<currentProfile, changeListeners, updateListeners, catalog>>

\* A resumption that also waits for, and fails on, the promises pushed into
\* the array after the dispatch.
ResumeAwaitingLate(c) ==
    LET all == slots[c].joiners \o Late(slots[c])
    IN  /\ slots[c].pc = "await"
        /\ AllSettled(all)
        /\ slots' = [slots EXCEPT ![c] = IdleFrame]
        /\ effects' = [op |-> "complete", slot |-> c,
                       target |-> slots[c].target,
                       joiners |-> slots[c].joiners,
                       late |-> Late(slots[c]),
                       result |-> Settled(all).result,
                       errors |-> Settled(all).errors]
        /\ UNCHANGED <<currentProfile, changeListeners, updateListeners,
                       catalog>>

\* The await of line 60 resumes (lines 60-61), recorded with the promises
\* that were pushed after the dispatch.
ResumeObserved(c) ==
    /\ slots[c].pc = "await"
    /\ AllSettled(slots[c].joiners)
    /\ slots' = [slots EXCEPT ![c] = IdleFrame]
    /\ effects' = [op |-> "complete", slot |-> c,
                   target |-> slots[c].target,
                   joiners |-> slots[c].joiners,
                   late |-> Late(slots[c]),
                   result |-> Settled(slots[c].joiners).result,
                   errors |-> Settled(slots[c].joiners).errors]
    /\ UNCHANGED <<currentProfile, changeListeners, updateListeners, catalog>>

\* Change listeners register while no call is suspended, so that every
\* registered listener has received the event of a suspended call.
SubscribeIdle ==
    /\ \A c \in Slots : slots[c].pc = "idle"
    /\ OnDidChangeCurrentProfile

JoinLate == \E c \in Slots : LateJoin(c)

SettleAfter ==
    \E c \in Slots, i \in 1..MaxLate, outcome \in {"fulfilled", "rejected"} :
        SettleLate(c, i, outcome)

ReturnObserved == \E c \in Slots : ResumeObserved(c)

NextLateJoin ==
    \/ SubscribeIdle
    \/ Switch
    \/ Settle
    \/ JoinLate
    \/ SettleAfter
    \/ ReturnObserved

SpecLateJoin == Init /\ [][NextLateJoin]_vars

(***************************************************************************)
(* C19.  Barrier membership is fixed at the end of dispatch: the promises  *)
(* a call waits for are those joined during its dispatch, and their number *)
(* does not change while the call is suspended; a call can complete as     *)
(* soon as these have settled, also while a promise joined afterwards is   *)
(* pending, and its result fails exactly when one of these was rejected,   *)
(* whatever became of the promises joined afterwards.                      *)
(***************************************************************************)
C19_BarrierFixedAtDispatch ==
    /\ [](\A c \in Slots :
            (Awaiting(c) /\ AllSettled(slots[c].joiners))
                => ENABLED ResumeObserved(c))
    /\ [][\A c \in Slots :
            /\ (~Awaiting(c) /\ slots'[c].pc = "await") =>
                    /\ Len(slots'[c].joiners) = TotalJoined(effects'.change)
                    /\ Late(slots'[c]) = <<>>
            /\ (Awaiting(c) /\ slots'[c].pc = "await") =>
                    Len(slots'[c].joiners) = Len(slots[c].joiners)
            /\ (Awaiting(c) /\ slots'[c].pc = "idle") =>
                    /\ AllSettled(slots[c].joiners)
                    /\ effects'.op = "complete"
                    /\ effects'.joiners = slots[c].joiners
                    /\ effects'.late = Late(slots[c])
                    /\ effects'.result =
                            (IF Failures(slots[c].joiners) = {}
                             THEN "ok" ELSE "fail")
                    /\ effects'.errors = Failures(slots[c].joiners)]_vars

C19_Witness ==
    /\ Completed
    /\ effects.result = "ok"
    /\ effects.joiners # <<>>
    /\ \E i \in 1..Len(effects.late) : effects.late[i] = "rejected"
    /\ \E i \in 1..Len(effects.late) : effects.late[i] = "pending"

====
